---- MODULE Spec2Model ----
(***************************************************************************)
(* Model of the convex-evals harness: discovery, the concurrent generation *)
(* phase (main.ts, generate.ts), the sequential evaluation loop (main.ts), *)
(* the stage commands (typescript.ts) and the local backend deploy with    *)
(* its health check (convex_backend.ts).                                   *)
(***************************************************************************)
EXTENDS Integers, Sequences, FiniteSets, TLC

\* ------------------------------------------------------------------------
\* Program constants
\* ------------------------------------------------------------------------

\* healthCheck: const deadline = Date.now() + 10000 (milliseconds)
TotalTimeout == 10000

\* healthCheck: 100 * Math.pow(2, numAttempts) (milliseconds)
BaseDelay == 100

\* ------------------------------------------------------------------------
\* Bounds and environment of the model
\* ------------------------------------------------------------------------

\* cap on healthCheck's numAttempts counter (the loop itself has none)
MaxAttempts == 9

\* "the target never answers successfully"
Never == -1

\* times (ms after healthCheck starts) from which the probed endpoint
\* answers successfully
HealthyAtSet == {5000, 9999, Never}

\* time (ms) a request to the version endpoint takes before it is answered;
\* the first answer always comes before the endpoint turns healthy
FetchDur == {0, 3700}

\* the evals directories the model runs on (every test directory holds a
\* PROMPT.txt): "empty" has no entry, "plain" has the categories ab (test
\* t1) and cd (tests t2, u3), "nested" has besides them the directories
\* a/b and c/d
Layouts == {"empty", "plain", "nested"}

\* entries of the evals directory as readdirSync lists them (names are
\* sequences of characters), and the entries below each of them
EvalsDirEntries(layout) ==
    IF layout = "empty" THEN <<>>
    ELSE IF layout = "plain" THEN << <<"c", "d">>, <<"a", "b">> >>
    ELSE << <<"c", "d">>, <<"a">>, <<"c">>, <<"a", "b">> >>

ReaddirCategory(category) ==
    IF category = <<"a", "b">> THEN << <<"t", "1">> >>
    ELSE IF category = <<"c", "d">> THEN << <<"t", "2">>, <<"u", "3">> >>
    ELSE IF category = <<"a">> THEN << <<"b">> >>
    ELSE << <<"d">> >>

\* the file join(evalsDir, category, test, "PROMPT.txt") exists
PromptExists(layout, category, test) ==
    /\ \E i \in 1..Len(EvalsDirEntries(layout)) :
           EvalsDirEntries(layout)[i] = category
    /\ \E j \in 1..Len(ReaddirCategory(category)) :
           ReaddirCategory(category)[j] = test

\* the test names the -k regular expression matches
FilterMatches == { <<"t", "1">>, <<"t", "2">> }

\* character order used by Array.prototype.sort on strings
Alphabet == <<"1", "2", "3", "a", "b", "c", "d", "t", "u">>

Min(a, b) == IF a < b THEN a ELSE b

RECURSIVE Pow2(_)
Pow2(n) == IF n = 0 THEN 1 ELSE 2 * Pow2(n - 1)

\* ------------------------------------------------------------------------
\* Discovery (main.ts)
\* ------------------------------------------------------------------------

CharOrd(c) == CHOOSE k \in 1..Len(Alphabet) : Alphabet[k] = c

RECURSIVE StrLess(_, _)
StrLess(a, b) ==
    IF Len(b) = 0 THEN FALSE
    ELSE IF Len(a) = 0 THEN TRUE
    ELSE IF a[1] # b[1] THEN CharOrd(a[1]) < CharOrd(b[1])
    ELSE StrLess(Tail(a), Tail(b))

RECURSIVE Insert(_, _)
Insert(x, s) ==
    IF Len(s) = 0 THEN <<x>>
    ELSE IF StrLess(x, s[1]) THEN <<x>> \o s
    ELSE <<s[1]>> \o Insert(x, Tail(s))

RECURSIVE SortStrings(_)
SortStrings(s) ==
    IF Len(s) = 0 THEN <<>> ELSE Insert(s[1], SortStrings(Tail(s)))

\* the callback handed to the outer .filter(): it returns the array of
\* [category, test] pairs of the tests that pass the name filter
CategoryCallback(category, testFilter) ==
    SelectSeq(ReaddirCategory(category),
              LAMBDA test : testFilter = "null" \/ test \in FilterMatches)

\* JavaScript truthiness of an array: every array, the empty one included
Truthy(array) == TRUE

\* readdirSync(evalsDir).filter(callback).flat().sort(): filter keeps the
\* entries whose callback result is truthy, flat() leaves strings alone
Discover(layout, testFilter) ==
    SortStrings(SelectSeq(EvalsDirEntries(layout),
        LAMBDA category : Truthy(CategoryCallback(category, testFilter))))

\* the value undefined, where a string is expected
Undefined == <<>>

\* for (const [category, test] of tests): array destructuring of an element
Destructure(t) ==
    [category |-> IF Len(t) >= 1 THEN <<t[1]>> ELSE Undefined,
     test     |-> IF Len(t) >= 2 THEN <<t[2]>> ELSE Undefined]

\* the file system the run starts on: the layout of the evals directory and
\* the projects p whose directory join(outputDir, "evals", category, test,
\* "project") exists
VARIABLE fs

\* const tests, for each layout
DiscoveredTests == [layout \in Layouts |-> Discover(layout, "null")]

tests == DiscoveredTests[fs.layout]

Projects == 1..Len(tests)

\* join(evalsDir, category, test), join(outputDir, "evals", category, test):
\* path.join throws a TypeError when an argument is not a string
JoinThrows(p) ==
    \/ Destructure(tests[p]).category = Undefined
    \/ Destructure(tests[p]).test = Undefined

\* the projects whose directory below outputDir has a name
ProjectDirCandidates == {p \in Projects : ~JoinThrows(p)}

\* ------------------------------------------------------------------------
\* Paths and generated files (generate.ts)
\* ------------------------------------------------------------------------

\* --output-dir
outputDir == <<"out">>

\* path.join(base, rel): concatenates and normalises ".." segments
RECURSIVE Join(_, _)
Join(base, rel) ==
    IF Len(rel) = 0 THEN base
    ELSE IF rel[1] = ".." /\ Len(base) > 0 /\ base[Len(base)] # ".."
         THEN Join(SubSeq(base, 1, Len(base) - 1), Tail(rel))
         ELSE Join(Append(base, rel[1]), Tail(rel))

\* pairs <<s, p>> of distinct path segments where p is a proper string
\* prefix of s
SegmentPrefixes == { <<"project-old", "project">> }

\* String.prototype.startsWith on the "/"-joined paths
StartsWith(abs, dir) ==
    /\ Len(abs) >= Len(dir)
    /\ SubSeq(abs, 1, Len(dir) - 1) = SubSeq(dir, 1, Len(dir) - 1)
    /\ \/ abs[Len(dir)] = dir[Len(dir)]
       \/ <<abs[Len(dir)], dir[Len(dir)]>> \in SegmentPrefixes

\* generateTest({inputDir, outputRoot: outputDir, client}):
\* const projectDir = join(outputRoot, "project")
projectDir(p) == Join(outputDir, <<"project">>)

\* main.ts: const testOutputDir = join(outputDir, "evals", category, test);
\* the stages work in join(testOutputDir, "project")
testOutputDir(p) ==
    Join(outputDir, <<"evals">> \o Destructure(tests[p]).category
                                \o Destructure(tests[p]).test)

\* what the generation call may return for project p
GenResponses == {"ok", "escape", "escapeFirst", "sibling", "error"}

\* the <file path=...> tags of a response, in document order; the content of
\* a file names the project it was generated for
FileTags(p, response) ==
    IF response = "ok"
    THEN << [path |-> <<"package.json">>, content |-> p],
            [path |-> <<"convex", IF p = 1 THEN "a.ts" ELSE "b.ts">>,
             content |-> p] >>
    ELSE IF response = "escape"
    THEN << [path |-> <<"package.json">>, content |-> p],
            [path |-> <<"..", "x">>, content |-> p] >>
    ELSE IF response = "escapeFirst"
    THEN << [path |-> <<"..", "x">>, content |-> p],
            [path |-> <<"package.json">>, content |-> p] >>
    ELSE IF response = "sibling"
    THEN << [path |-> <<"..", "project-old", "x">>, content |-> p],
            [path |-> <<"..", "x">>, content |-> p] >>
    ELSE <<>>

\* the file abs holds content; a content is the set of the projects whose
\* generated text it has bytes of: {} is an empty file, {p} exactly the text
\* generated for p, a larger set a mixture
WriteFile(d, abs, content) ==
    {e \in d : e[1] # abs} \cup {<<abs, content>>}

\* the content of file abs, {} when it does not exist
ContentAt(d, abs) ==
    IF \E e \in d : e[1] = abs
    THEN (CHOOSE e \in d : e[1] = abs)[2]
    ELSE {}

\* the contents a file holding old may have after the text of project c is
\* written from offset 0: the text of c alone when it is at least as long
\* as what is there, the text of c followed by the rest of it otherwise
Overwrite(old, c) ==
    IF old \subseteq {c} THEN {{c}} ELSE {{c}, old \cup {c}}

\* the files below directory dir
FilesUnder(d, dir) ==
    {e \in d : Len(e[1]) > Len(dir) /\ SubSeq(e[1], 1, Len(dir)) = dir}

\* ------------------------------------------------------------------------
\* State
\* ------------------------------------------------------------------------

VARIABLES
    opts,       \* program.opts(): doGeneration, doEvaluation, concurrency, report
    mainPc,     \* where main() is: "start", "awaitAll", "evaluate",
                \* "writeReport", "resolved", "rejected"
    mainError,  \* the error main() rejected with
    exitCode,   \* process exit status, -1 while the process runs
    genOut,     \* per project: what the generation call returned
    gpc,        \* per project: where its generateTest call is
    gidx,       \* per project: index of the file tag being written
    disk,       \* files written below outputDir: <<absolute path, content>>
    pc,         \* per project: where its loop iteration is
    entry,      \* per project: its reportEntry
    allOk,      \* per project: the iteration's allOk
    recorded,   \* per project: stages in the order their outcome was assigned
    attempted,  \* per project: stages in the order they were started
    setupLog,   \* per project: the commands of setupJs that have closed,
                \* in order, with their exit code
    report,     \* const report: ReportEntry[]
    anyFailed,  \* let anyFailed
    written,    \* content of the report file, "none" if not written
    files,      \* per project: state of deploy's stdoutFile and stderrFile
    proc,       \* per project: state of the backend process deploy spawned
    signaled,   \* per project: convexProcess.kill() has been called
    derr,       \* per project: error pending in deploy's try block
    pushRuns,   \* per project: number of runs of the push command
    hc          \* per project: the healthCheck call of its deploy

genVars == <<genOut, gpc, gidx, disk>>
evalVars == <<pc, entry, allOk, recorded, attempted, setupLog, report,
             anyFailed, written>>
deployVars == <<files, proc, signaled, derr, pushRuns, hc>>
mainVars == <<opts, fs, mainPc, mainError, exitCode>>
vars == <<opts, fs, mainPc, mainError, exitCode, genOut, gpc, gidx, disk,
          pc, entry, allOk, recorded, attempted, setupLog, report, anyFailed,
          written,
          files, proc, signaled, derr, pushRuns, hc>>

\* -c, --concurrency <number>
ConcurrencyValues == {1, 4}

Stages == <<"setup", "typecheck", "lint", "deploy">>

\* JSON values: a string, or an object given by its set of
\* <<field, value>> pairs
JStr(s) == [type |-> "string", str |-> s, fields |-> {}]

JObj(fields) == [type |-> "object", str |-> "", fields |-> fields]

\* String(v), as Array.prototype.join applies it to an element
ToStringItem(v) == IF v.type = "string" THEN v.str ELSE "[object Object]"

\* delete v[name]
DeleteField(v, name) == [v EXCEPT !.fields = {f \in @ : f[1] # name}]

\* thrown values; a text is the sequence of the pieces it is put together
\* from. NoError stands for a promise that fulfilled
NoError == [name |-> "none", message |-> <<>>, metadata |-> <<>>]

Error(message) == [name |-> "Error", message |-> message, metadata |-> <<>>]

VerificationError(message, metadata) ==
    [name |-> "VerificationError", message |-> message, metadata |-> metadata]

\* String(e): VerificationError.toString() is message, "\n" and
\* metadata.join("\n"); Error.prototype.toString() is name, ": " and message
StringOf(e) ==
    IF e.name = "VerificationError"
    THEN e.message \o [k \in 1..Len(e.metadata) |-> ToStringItem(e.metadata[k])]
    ELSE <<e.name, ": ">> \o e.message

\* the error field of a stage outcome in the report: a text or a list of
\* JSON values; NoValue when the outcome has no error field
NoValue == [text |-> <<>>, list |-> <<>>]

TextValue(text) == [text |-> text, list |-> <<>>]

ListValue(list) == [text |-> <<>>, list |-> list]

\* a stage field of a ReportEntry: not set, { status: "ok" } or
\* { status: "failed", error: String(e) }
Absent == [status |-> "absent", error |-> NoValue]

Outcome(error) ==
    IF error = NoError THEN [status |-> "ok", error |-> NoValue]
    ELSE [status |-> "failed", error |-> TextValue(StringOf(error))]

\* const reportEntry: ReportEntry = { category, test }
NewEntry(p) ==
    [category |-> Destructure(tests[p]).category,
     test     |-> Destructure(tests[p]).test,
     setup |-> Absent, typecheck |-> Absent,
     lint |-> Absent, deploy |-> Absent]

\* healthCheck before it is called
HcIdle ==
    [pc |-> "idle", now |-> 0, deadline |-> 0, numAttempts |-> 0,
     healthyAt |-> Never, failed |-> 0, thrown |-> 0,
     sleepStart |-> 0, sleepFor |-> 0, slept |-> 0, remaining |-> 0]

Init ==
    /\ opts \in [doGeneration : BOOLEAN, doEvaluation : BOOLEAN,
                 concurrency : ConcurrencyValues, report : BOOLEAN]
    /\ fs \in { [layout |-> l, projectDirs |-> d] :
                   l \in Layouts, d \in SUBSET (1..4) }
    /\ fs.projectDirs \subseteq ProjectDirCandidates
    /\ opts.doGeneration => fs.projectDirs = {}
    /\ mainPc = "start"
    /\ mainError = "none"
    /\ exitCode = -1
    /\ genOut = [p \in Projects |-> "none"]
    /\ gpc = [p \in Projects |-> "idle"]
    /\ gidx = [p \in Projects |-> 0]
    /\ disk = {}
    /\ pc = [p \in Projects |-> "wait"]
    /\ entry = [p \in Projects |-> NewEntry(p)]
    /\ allOk = [p \in Projects |-> TRUE]
    /\ recorded = [p \in Projects |-> <<>>]
    /\ attempted = [p \in Projects |-> <<>>]
    /\ setupLog = [p \in Projects |-> <<>>]
    /\ report = <<>>
    /\ anyFailed = FALSE
    /\ written = "none"
    /\ files = [p \in Projects |-> [stdout |-> "unopened", stderr |-> "unopened"]]
    /\ proc = [p \in Projects |-> "none"]
    /\ signaled = [p \in Projects |-> FALSE]
    /\ derr = [p \in Projects |-> "none"]
    /\ pushRuns = [p \in Projects |-> 0]
    /\ hc = [p \in Projects |-> HcIdle]

\* ------------------------------------------------------------------------
\* main(): start, generation phase (main.ts, generate.ts)
\* ------------------------------------------------------------------------

\* where main() goes once the generation phase is over (or skipped)
AfterGeneration == IF opts.doEvaluation THEN "evaluate" ELSE "resolved"

\* main() up to its first suspension: await mkdir(outputDir) when the
\* generation phase runs, the evaluation loop otherwise
MainStart ==
    /\ mainPc = "start"
    /\ mainPc' = IF opts.doGeneration THEN "mkdirOutput" ELSE AfterGeneration
    /\ UNCHANGED <<opts, fs, mainError, exitCode>>
    /\ UNCHANGED genVars
    /\ UNCHANGED evalVars
    /\ UNCHANGED deployVars

\* Promise.allSettled in place of Promise.all: main() goes on once every
\* promise has settled, rejected or not
SettleAllSettled(g) ==
    IF mainPc \notin {"mkdirOutput", "awaitAll"} THEN <<mainPc, mainError>>
    ELSE IF \A q \in Projects : g[q] \in {"done", "failed"}
         THEN <<AfterGeneration, mainError>>
    ELSE <<"awaitAll", mainError>>

\* await Promise.all(promises), when main() reaches it and when a promise
\* settles later: the first rejection rejects main() with "Generation
\* failed.", the last fulfilment lets main() go on
SettleAll(g) ==
    IF mainPc \notin {"mkdirOutput", "awaitAll"} THEN <<mainPc, mainError>>
    ELSE IF \E q \in Projects : g[q] = "failed"
         THEN <<"rejected", "Generation failed.">>
    ELSE IF \A q \in Projects : g[q] = "done"
         THEN <<AfterGeneration, mainError>>
    ELSE <<"awaitAll", mainError>>

\* await mkdir(outputDir) completes; tests.map runs every callback up to its
\* first await (join, which may throw, then generateTest up to its
\* readFile) and main awaits Promise.all
MainMkdirOutput ==
    /\ mainPc = "mkdirOutput"
    /\ LET g == [p \in Projects |->
                   IF JoinThrows(p) THEN "failed" ELSE "readPrompt"] IN
       /\ gpc' = g
       /\ mainPc' = SettleAll(g)[1]
       /\ mainError' = SettleAll(g)[2]
    /\ UNCHANGED <<opts, fs, exitCode, genOut, gidx, disk>>
    /\ UNCHANGED evalVars
    /\ UNCHANGED deployVars

\* the for loop over the file tags, from the top of iteration k up to its
\* first await: "failed" when the path leaves projectDir, "done" after the
\* last tag
FileLoop(p, k) ==
    LET tags == FileTags(p, genOut[p]) IN
    IF k > Len(tags) THEN "done"
    ELSE IF ~StartsWith(Join(projectDir(p), tags[k].path), projectDir(p))
         THEN "failed"
    ELSE "mkdirFile"

\* await readFile(join(inputDir, "PROMPT.txt")): rejects when the file does
\* not exist
GenReadPrompt(p) ==
    /\ gpc[p] = "readPrompt"
    /\ LET g == [gpc EXCEPT ![p] =
                   IF PromptExists(fs.layout, Destructure(tests[p]).category,
                                   Destructure(tests[p]).test)
                   THEN "api" ELSE "failed"] IN
       /\ gpc' = g
       /\ mainPc' = SettleAll(g)[1]
       /\ mainError' = SettleAll(g)[2]
    /\ UNCHANGED <<opts, fs, exitCode, genOut, gidx, disk>>
    /\ UNCHANGED evalVars
    /\ UNCHANGED deployVars

\* await client.messages.create(...), the content check
GenApi(p) ==
    /\ gpc[p] = "api"
    /\ \E response \in GenResponses :
         LET g == [gpc EXCEPT ![p] = IF response = "error" THEN "failed"
                                     ELSE "mkdirProject"] IN
         /\ genOut' = [genOut EXCEPT ![p] = response]
         /\ gpc' = g
         /\ mainPc' = SettleAll(g)[1]
         /\ mainError' = SettleAll(g)[2]
    /\ UNCHANGED <<opts, fs, exitCode, gidx, disk>>
    /\ UNCHANGED evalVars
    /\ UNCHANGED deployVars

\* await mkdir(projectDir), then the loop up to the first file's mkdir
GenMkdirProject(p) ==
    /\ gpc[p] = "mkdirProject"
    /\ LET g == [gpc EXCEPT ![p] = FileLoop(p, 1)] IN
       /\ gpc' = g
       /\ mainPc' = SettleAll(g)[1]
       /\ mainError' = SettleAll(g)[2]
    /\ gidx' = [gidx EXCEPT ![p] = 1]
    /\ UNCHANGED <<opts, fs, exitCode, genOut, disk>>
    /\ UNCHANGED evalVars
    /\ UNCHANGED deployVars

\* await mkdir(join(absFilePath, "..")), then writeFile is called
GenMkdirFile(p) ==
    /\ gpc[p] = "mkdirFile"
    /\ gpc' = [gpc EXCEPT ![p] = "open"]
    /\ UNCHANGED <<genOut, gidx, disk>>
    /\ UNCHANGED mainVars
    /\ UNCHANGED evalVars
    /\ UNCHANGED deployVars

\* the file of the tag project p is writing
CurrentFile(p) ==
    Join(projectDir(p), FileTags(p, genOut[p])[gidx[p]].path)

\* writeFile(absFilePath, content), first step: the file is opened with
\* flag "w", which creates it or truncates it
GenOpenFile(p) ==
    /\ gpc[p] = "open"
    /\ disk' = WriteFile(disk, CurrentFile(p), {})
    /\ gpc' = [gpc EXCEPT ![p] = "write"]
    /\ UNCHANGED <<genOut, gidx>>
    /\ UNCHANGED mainVars
    /\ UNCHANGED evalVars
    /\ UNCHANGED deployVars

\* writeFile, second step: the content is written from offset 0, over
\* whatever another writer has put into the file since it was truncated
GenWriteData(p) ==
    /\ gpc[p] = "write"
    /\ \E content \in Overwrite(ContentAt(disk, CurrentFile(p)),
                                  FileTags(p, genOut[p])[gidx[p]].content) :
         disk' = WriteFile(disk, CurrentFile(p), content)
    /\ gpc' = [gpc EXCEPT ![p] = "close"]
    /\ UNCHANGED <<genOut, gidx>>
    /\ UNCHANGED mainVars
    /\ UNCHANGED evalVars
    /\ UNCHANGED deployVars

\* writeFile, last step: the file is closed and await writeFile(...)
\* returns; then the next iteration of the loop
GenCloseFile(p) ==
    /\ gpc[p] = "close"
    /\ LET g == [gpc EXCEPT ![p] = FileLoop(p, gidx[p] + 1)] IN
       /\ gpc' = g
       /\ mainPc' = SettleAll(g)[1]
       /\ mainError' = SettleAll(g)[2]
    /\ gidx' = [gidx EXCEPT ![p] = gidx[p] + 1]
    /\ UNCHANGED <<opts, fs, exitCode, genOut, disk>>
    /\ UNCHANGED evalVars
    /\ UNCHANGED deployVars

\* ------------------------------------------------------------------------
\* Evaluation phase: the loop of main() over tests (main.ts) and the stage
\* commands (typescript.ts)
\* ------------------------------------------------------------------------

\* reportEntry.<stage> = { status }
SetStage(p, stage, error) ==
    /\ entry' = [entry EXCEPT ![p] = [entry[p] EXCEPT ![stage] = Outcome(error)]]
    /\ recorded' = [recorded EXCEPT ![p] = Append(recorded[p], stage)]

\* the iterations whose pipeline has started and whose entry is not pushed
InFlight == {q \in Projects : pc[q] \notin {"wait", "done"}}

\* for (const [category, test] of tests) with awaits in its body: iteration
\* p begins when the iterations before it have pushed their entry
CanStartCapped(p) ==
    /\ mainPc = "evaluate"
    /\ pc[p] = "wait"
    /\ \A q \in 1..(p - 1) : pc[q] # "wait"
    /\ Cardinality(InFlight) < opts.concurrency

CanStart(p) ==
    /\ mainPc = "evaluate"
    /\ pc[p] = "wait"
    /\ p = Len(report) + 1

\* top of the loop body up to await setupJs(): join, which may throw out of
\* main(), then bun install is spawned
StartPipeline(p) ==
    /\ CanStart(p)
    /\ IF JoinThrows(p)
       THEN /\ mainPc' = "rejected"
            /\ mainError' = "TypeError"
            /\ UNCHANGED <<pc, attempted>>
       ELSE /\ pc' = [pc EXCEPT ![p] = "install"]
            /\ attempted' = [attempted EXCEPT ![p] = <<"setup">>]
            /\ UNCHANGED <<mainPc, mainError>>
    /\ UNCHANGED <<entry, allOk, recorded, report, anyFailed, setupLog, written>>
    /\ UNCHANGED <<opts, fs, exitCode>>
    /\ UNCHANGED genVars
    /\ UNCHANGED deployVars

\* if (reportEntry.setup?.status === "ok") { typecheck; lint; deploy }
AfterSetupAlways(status) == "typecheck"

AfterSetup(status) == IF status = "ok" THEN "typecheck" ELSE "finalize"

\* the try/catch around typecheckJs falls through to the lint block
AfterTypecheckStop(status) == IF status = "ok" THEN "lint" ELSE "finalize"

AfterTypecheck(status) == "lint"

\* the try/catch around lintJs falls through to the deploy block
AfterLint(status) == "mkdirBackend"

\* the stage whose command starts when the iteration reaches pc value next
StageAt(next) ==
    IF next = "typecheck" THEN <<"typecheck">>
    ELSE IF next = "lint" THEN <<"lint">>
    ELSE IF next = "mkdirBackend" THEN <<"deploy">>
    ELSE <<>>

\* a stage settles (error = "none": its promise fulfilled) and the
\* iteration goes on to next
Advance(p, stage, error, next) ==
    /\ SetStage(p, stage, error)
    /\ allOk' = [allOk EXCEPT ![p] = allOk[p] /\ error = NoError]
    /\ pc' = [pc EXCEPT ![p] = next]
    /\ attempted' = [attempted EXCEPT ![p] = attempted[p] \o StageAt(next)]

\* proc.on("close", (code) => { if (code === 0) resolve() else reject(...) })
InstallResolvesAlways(code) == TRUE

InstallResolves(code) == code = 0

\* the exit status of a process that ends by an uncaught exception
UncaughtExit == 1

\* spawn(..., { cwd }) with a directory that does not exist: the child
\* emits "error"
SpawnFails(p) == p \notin fs.projectDirs

\* setupJs, first promise. bun install closes with code, and when the
\* promise resolves bunx convex codegen is spawned; or the spawn failed:
\* proc has no "error" listener, the event is thrown as an uncaught
\* exception and ends the process
SetupInstall(p) ==
    /\ pc[p] = "install"
    /\ IF SpawnFails(p)
       THEN /\ pc' = [pc EXCEPT ![p] = "crashed"]
            /\ exitCode' = UncaughtExit
            /\ UNCHANGED <<entry, allOk, recorded, attempted, setupLog>>
       ELSE /\ exitCode' = exitCode
            /\ \E code \in {0, 1} :
                 /\ setupLog' = [setupLog EXCEPT ![p] =
                                   Append(@, [cmd |-> "install", code |-> code])]
                 /\ IF InstallResolves(code)
                    THEN /\ pc' = [pc EXCEPT ![p] = "codegen"]
                         /\ UNCHANGED <<entry, allOk, recorded, attempted>>
                    ELSE Advance(p, "setup",
                                 Error(<<"Install failed with code 1">>),
                                 AfterSetup("failed"))
    /\ UNCHANGED <<report, anyFailed, written>>
    /\ UNCHANGED <<opts, fs, mainPc, mainError>>
    /\ UNCHANGED genVars
    /\ UNCHANGED deployVars

\* setupJs, second promise: bunx convex codegen closes with code
SetupCodegen(p) ==
    /\ pc[p] = "codegen"
    /\ \E code \in {0, 1} :
         LET error == IF code = 0 THEN NoError
                      ELSE Error(<<"Codegen failed with code 1">>) IN
         /\ setupLog' = [setupLog EXCEPT ![p] =
                           Append(@, [cmd |-> "codegen", code |-> code])]
         /\ Advance(p, "setup", error, AfterSetup(Outcome(error).status))
    /\ UNCHANGED <<report, anyFailed, written>>
    /\ UNCHANGED mainVars
    /\ UNCHANGED genVars
    /\ UNCHANGED deployVars

\* stdout.split("\n") of a failing bunx tsc
TscOutput == << JStr("convex/a.ts(1,1): error TS2322"), JStr("") >>

\* typecheckJs: bunx tsc closes with code
Typecheck(p) ==
    /\ pc[p] = "typecheck"
    /\ \E code \in {0, 1} :
         LET error == IF code = 0 THEN NoError
                      ELSE VerificationError(<<"Typechecking failed">>,
                                             TscOutput) IN
         Advance(p, "typecheck", error, AfterTypecheck(Outcome(error).status))
    /\ UNCHANGED <<report, anyFailed, setupLog, written>>
    /\ UNCHANGED mainVars
    /\ UNCHANGED genVars
    /\ UNCHANGED deployVars

\* what bunx eslint printed: raw is the text, parsed the result of
\* JSON.parse(raw) when raw is the JSON text of a list of records
EslintOutput(parses) ==
    IF parses
    THEN [parses |-> TRUE,
          raw |-> "[{ruleId:r1,source:s1},{ruleId:r2,source:s2}]",
          parsed |-> << JObj({<<"ruleId", "r1">>, <<"source", "s1">>}),
                        JObj({<<"ruleId", "r2">>, <<"source", "s2">>}) >>]
    ELSE [parses |-> FALSE,
          raw |-> "Oops! Something went wrong!",
          parsed |-> <<>>]

\* lintJs: bunx eslint closes with code; with a non-zero code the promise
\* rejects, with a VerificationError when the output parses as a list of
\* records and with a plain Error otherwise
LintError(code, output) ==
    IF code = 0 THEN NoError
    ELSE IF output.parses
    THEN VerificationError(<<"Linting failed">>,
             [k \in 1..Len(output.parsed) |->
                 DeleteField(output.parsed[k], "source")])
    ELSE Error(<<"ESLint failed with output: ", output.raw>>)

Lint(p) ==
    /\ pc[p] = "lint"
    /\ \E code \in {0, 1}, parses \in BOOLEAN :
         LET error == LintError(code, EslintOutput(parses)) IN
         Advance(p, "lint", error, AfterLint(Outcome(error).status))
    /\ UNCHANGED <<report, anyFailed, setupLog, written>>
    /\ UNCHANGED mainVars
    /\ UNCHANGED genVars
    /\ UNCHANGED deployVars

\* if (!allOk) anyFailed = true
NextAnyFailedOverwrite(any, ok) == ~ok

NextAnyFailed(any, ok) == any \/ ~ok

\* report.push(reportEntry); if (!allOk) anyFailed = true
Finalize(p) ==
    /\ pc[p] = "finalize"
    /\ report' = Append(report, entry[p])
    /\ anyFailed' = NextAnyFailed(anyFailed, allOk[p])
    /\ pc' = [pc EXCEPT ![p] = "done"]
    /\ UNCHANGED <<entry, allOk, recorded, attempted, setupLog, written>>
    /\ UNCHANGED mainVars
    /\ UNCHANGED genVars
    /\ UNCHANGED deployVars

\* if (anyFailed) throw new Error("Evaluation failed.")
EvalResult ==
    IF anyFailed THEN <<"rejected", "Evaluation failed.">>
    ELSE <<"resolved", "none">>

\* the for loop ends when every element of tests has had its iteration
LoopDone == \A q \in Projects : pc[q] = "done"

\* the loop is over (no iteration is suspended in an await):
\* if (reportPath) await Bun.write(...)
EvalLoopEnd ==
    /\ mainPc = "evaluate"
    /\ InFlight = {}
    /\ LoopDone
    /\ IF opts.report
       THEN /\ mainPc' = "writeReport"
            /\ mainError' = mainError
       ELSE /\ mainPc' = EvalResult[1]
            /\ mainError' = EvalResult[2]
    /\ UNCHANGED <<opts, fs, exitCode>>
    /\ UNCHANGED genVars
    /\ UNCHANGED evalVars
    /\ UNCHANGED deployVars

\* Bun.write(reportPath, JSON.stringify(report, null, 2)) completes
EvalWriteReport ==
    /\ mainPc = "writeReport"
    /\ written' = report
    /\ mainPc' = EvalResult[1]
    /\ mainError' = EvalResult[2]
    /\ UNCHANGED <<opts, fs, exitCode>>
    /\ UNCHANGED genVars
    /\ UNCHANGED <<pc, entry, allOk, recorded, attempted, report, anyFailed, setupLog>>
    /\ UNCHANGED deployVars

\* main().catch(console.error): the rejection is handled and logged, nothing
\* sets process.exitCode
ExitStatus(outcome) == 0

\* the process ends once main() has settled and no generation is pending
ProcessExit ==
    /\ mainPc \in {"resolved", "rejected"}
    /\ exitCode = -1
    /\ \A q \in Projects : gpc[q] \in {"idle", "done", "failed"}
    /\ exitCode' = ExitStatus(mainPc)
    /\ UNCHANGED <<opts, fs, mainPc, mainError>>
    /\ UNCHANGED genVars
    /\ UNCHANGED evalVars
    /\ UNCHANGED deployVars

\* ------------------------------------------------------------------------
\* deploy and healthCheck (convex_backend.ts)
\* ------------------------------------------------------------------------

\* try { ... } finally { kill; close; close }: where control goes when the
\* try body ends, normally (err = "none") or by a throw
TryExitCatchOnly(err) == IF err = "none" THEN "kill" ELSE "settle"

TryExit(err) == "kill"

\* if (remaining < 0) throw e
GiveUp(remaining) == remaining < 0

\* a backoff without the cap by the remaining time
BackoffUncapped(numAttempts, remaining) == BaseDelay * Pow2(numAttempts)

\* a backoff that grows by BaseDelay per attempt instead of doubling
BackoffLinear(numAttempts, remaining) ==
    Min(BaseDelay * (numAttempts + 1), remaining)

\* Math.min(100 * Math.pow(2, numAttempts), remaining)
Backoff(numAttempts, remaining) ==
    Min(BaseDelay * Pow2(numAttempts), remaining)

\* throw e: e is the error caught in the current iteration; errors are
\* numbered by the failed attempt that raised them
ThrownError(failed) == failed

\* healthCheck() called without await: deploy goes on whatever the probe
\* comes to
AfterProbeNotAwaited(err) == "exitCheck"

\* await healthCheck() inside try: a resolved probe is followed by the
\* exitCode test, a rejected one leaves the try body
AfterProbe(err) == IF err = "none" THEN "exitCheck" ELSE TryExit(err)

\* the response to a request answered at time t
FetchOk(healthyAt, t) == healthyAt # Never /\ t >= healthyAt

\* deploy(): await mkdir(backendDir, { recursive: true })
DeployMkdirBackend(p) ==
    /\ pc[p] = "mkdirBackend"
    /\ pc' = [pc EXCEPT ![p] = "mkdirStorage"]
    /\ UNCHANGED deployVars
    /\ UNCHANGED <<entry, allOk, recorded, attempted, report, anyFailed, setupLog, written>>
    /\ UNCHANGED mainVars
    /\ UNCHANGED genVars

\* await mkdir(storageDir, { recursive: true }), then open(stdout log) is
\* called
DeployMkdirStorage(p) ==
    /\ pc[p] = "mkdirStorage"
    /\ pc' = [pc EXCEPT ![p] = "openStdout"]
    /\ UNCHANGED deployVars
    /\ UNCHANGED <<entry, allOk, recorded, attempted, report, anyFailed, setupLog, written>>
    /\ UNCHANGED mainVars
    /\ UNCHANGED genVars

\* await open(join(backendDir, "backend.stdout.log"), "w")
DeployOpenStdout(p) ==
    /\ pc[p] = "openStdout"
    /\ \E ok \in BOOLEAN :
         IF ok
         THEN /\ files' = [files EXCEPT ![p].stdout = "open"]
              /\ pc' = [pc EXCEPT ![p] = "openStderr"]
              /\ derr' = derr
         ELSE /\ files' = files
              /\ pc' = [pc EXCEPT ![p] = "settle"]
              /\ derr' = [derr EXCEPT ![p] = "open failed"]
    /\ UNCHANGED <<proc, signaled, pushRuns, hc>>
    /\ UNCHANGED <<entry, allOk, recorded, attempted, report, anyFailed, setupLog, written>>
    /\ UNCHANGED mainVars
    /\ UNCHANGED genVars

\* open(backend.stderr.log, "w"), then spawn(convexBinary, ...) and, inside
\* try, healthCheck() up to its first fetch
DeployOpenStderr(p) ==
    /\ pc[p] = "openStderr"
    /\ \E ok \in BOOLEAN :
         IF ok
         THEN /\ files' = [files EXCEPT ![p].stderr = "open"]
              /\ proc' = [proc EXCEPT ![p] = "running"]
              /\ pc' = [pc EXCEPT ![p] = "probe"]
              /\ \E h \in HealthyAtSet :
                   hc' = [hc EXCEPT ![p] =
                            [HcIdle EXCEPT !.pc = "fetch",
                                           !.deadline = TotalTimeout,
                                           !.healthyAt = h]]
              /\ derr' = derr
         ELSE /\ pc' = [pc EXCEPT ![p] = "settle"]
              /\ derr' = [derr EXCEPT ![p] = "open failed"]
              /\ UNCHANGED <<files, proc, hc>>
    /\ UNCHANGED <<signaled, pushRuns>>
    /\ UNCHANGED <<entry, allOk, recorded, attempted, report, anyFailed, setupLog, written>>
    /\ UNCHANGED mainVars
    /\ UNCHANGED genVars

\* healthCheck: await fetch(...) settles after d ms. A response that is ok
\* returns true; anything else lands in the catch block, which throws when
\* the deadline has passed and otherwise starts the backoff timer
HcFetch(p) ==
    /\ pc[p] = "probe"
    /\ hc[p].pc = "fetch"
    /\ \E d \in FetchDur :
         LET h == hc[p]
             t == h.now + d
             remaining == h.deadline - t IN
         IF FetchOk(h.healthyAt, t)
         THEN /\ hc' = [hc EXCEPT ![p] = [h EXCEPT !.pc = "ok", !.now = t]]
              /\ pc' = [pc EXCEPT ![p] = AfterProbe("none")]
              /\ derr' = derr
         ELSE IF GiveUp(remaining)
         THEN /\ hc' = [hc EXCEPT ![p] =
                          [h EXCEPT !.pc = "err", !.now = t,
                                    !.failed = h.failed + 1,
                                    !.remaining = remaining,
                                    !.thrown = ThrownError(h.failed + 1)]]
              /\ pc' = [pc EXCEPT ![p] = AfterProbe("fetch failed")]
              /\ derr' = [derr EXCEPT ![p] = "fetch failed"]
         ELSE /\ hc' = [hc EXCEPT ![p] =
                          [h EXCEPT !.pc = "sleep", !.now = t,
                                    !.failed = h.failed + 1,
                                    !.remaining = remaining,
                                    !.sleepStart = t,
                                    !.sleepFor =
                                        Backoff(h.numAttempts, remaining)]]
              /\ pc' = pc
              /\ derr' = derr
    /\ UNCHANGED <<files, proc, signaled, pushRuns>>
    /\ UNCHANGED <<entry, allOk, recorded, attempted, report, anyFailed, setupLog, written>>
    /\ UNCHANGED mainVars
    /\ UNCHANGED genVars

\* healthCheck: the backoff timer fires; numAttempts++ and the next fetch
HcWake(p) ==
    /\ pc[p] = "probe"
    /\ hc[p].pc = "sleep"
    /\ hc[p].numAttempts < MaxAttempts
    /\ hc' = [hc EXCEPT ![p] =
                [hc[p] EXCEPT !.pc = "fetch",
                              !.now = hc[p].sleepStart + hc[p].sleepFor,
                              !.slept = hc[p].slept + hc[p].sleepFor,
                              !.numAttempts = hc[p].numAttempts + 1]]
    /\ UNCHANGED <<files, proc, signaled, derr, pushRuns>>
    /\ UNCHANGED evalVars
    /\ UNCHANGED mainVars
    /\ UNCHANGED genVars

\* the ways a child process ends: "exited" with an exit code, "killed" by
\* a signal (its exitCode stays null and its signalCode is set)
Ended == {"exited", "killed"}

\* convexProcess.exitCode !== null
ExitCodeSet(state) == state = "exited"

\* the error of the exitCode test is not thrown: the push follows anyway
AfterExitCheckPush(err) == "push"

\* the statement after the exitCode test: the push command when the test
\* passed, the way out of the try body when it threw
AfterExitCheck(err) == IF err = "none" THEN "push" ELSE TryExit(err)

\* if (convexProcess.exitCode !== null) throw new Error("Convex process
\* failed to start")
DeployExitCheck(p) ==
    /\ pc[p] = "exitCheck"
    /\ hc' = [hc EXCEPT ![p] = HcIdle]
    /\ LET err == IF ExitCodeSet(proc[p])
                  THEN "Convex process failed to start" ELSE "none" IN
       /\ derr' = [derr EXCEPT ![p] = err]
       /\ pc' = [pc EXCEPT ![p] = AfterExitCheck(err)]
    /\ UNCHANGED <<files, proc, signaled, pushRuns>>
    /\ UNCHANGED <<entry, allOk, recorded, attempted, report, anyFailed, setupLog, written>>
    /\ UNCHANGED mainVars
    /\ UNCHANGED genVars

\* spawnSync("bunx", ["convex", "dev", "--once", ...]) returns status:
\* if (result.status !== 0) throw new Error("Deploy failed with code ...")
DeployPush(p) ==
    /\ pc[p] = "push"
    /\ pushRuns' = [pushRuns EXCEPT ![p] = pushRuns[p] + 1]
    /\ \E status \in {0, 1} :
         LET err == IF status = 0 THEN "none" ELSE "Deploy failed" IN
         /\ derr' = [derr EXCEPT ![p] = err]
         /\ pc' = [pc EXCEPT ![p] = TryExit(err)]
    /\ UNCHANGED <<files, proc, signaled, hc>>
    /\ UNCHANGED <<entry, allOk, recorded, attempted, report, anyFailed, setupLog, written>>
    /\ UNCHANGED mainVars
    /\ UNCHANGED genVars

\* finally: convexProcess.kill() (the signal is sent, nothing waits for the
\* process to exit), then stdoutFile.close() is called
DeployKill(p) ==
    /\ pc[p] = "kill"
    /\ signaled' = [signaled EXCEPT ![p] = TRUE]
    /\ hc' = [hc EXCEPT ![p] = HcIdle]
    /\ pc' = [pc EXCEPT ![p] = "closeStdout"]
    /\ UNCHANGED <<files, proc, derr, pushRuns>>
    /\ UNCHANGED <<entry, allOk, recorded, attempted, report, anyFailed, setupLog, written>>
    /\ UNCHANGED mainVars
    /\ UNCHANGED genVars

\* finally: await stdoutFile.close()
DeployCloseStdout(p) ==
    /\ pc[p] = "closeStdout"
    /\ files' = [files EXCEPT ![p].stdout = "closed"]
    /\ pc' = [pc EXCEPT ![p] = "closeStderr"]
    /\ UNCHANGED <<proc, signaled, derr, pushRuns, hc>>
    /\ UNCHANGED <<entry, allOk, recorded, attempted, report, anyFailed, setupLog, written>>
    /\ UNCHANGED mainVars
    /\ UNCHANGED genVars

\* finally: await stderrFile.close(); deploy() then settles
DeployCloseStderr(p) ==
    /\ pc[p] = "closeStderr"
    /\ files' = [files EXCEPT ![p].stderr = "closed"]
    /\ pc' = [pc EXCEPT ![p] = "settle"]
    /\ UNCHANGED <<proc, signaled, derr, pushRuns, hc>>
    /\ UNCHANGED <<entry, allOk, recorded, attempted, report, anyFailed, setupLog, written>>
    /\ UNCHANGED mainVars
    /\ UNCHANGED genVars

\* the error deploy() rejects with, NoError when it resolves
DeployError(err) == IF err = "none" THEN NoError ELSE Error(<<err>>)

\* main.ts: the try/catch around await deploy(testOutputDir) records the
\* deploy outcome
DeploySettle(p) ==
    /\ pc[p] = "settle"
    /\ Advance(p, "deploy", DeployError(derr[p]), "finalize")
    /\ derr' = [derr EXCEPT ![p] = "none"]
    /\ hc' = [hc EXCEPT ![p] = HcIdle]
    /\ UNCHANGED <<files, proc, signaled, pushRuns>>
    /\ UNCHANGED <<report, anyFailed, setupLog, written>>
    /\ UNCHANGED mainVars
    /\ UNCHANGED genVars

\* the backend process ends: on its own or by a signal from outside at any
\* time, or after kill()
ProcExit(p) ==
    /\ proc[p] = "running"
    /\ \E how \in Ended : proc' = [proc EXCEPT ![p] = how]
    /\ UNCHANGED <<files, signaled, derr, pushRuns, hc>>
    /\ UNCHANGED evalVars
    /\ UNCHANGED mainVars
    /\ UNCHANGED genVars

\* ------------------------------------------------------------------------
\* Specification
\* ------------------------------------------------------------------------

Next ==
    \/ MainStart
    \/ MainMkdirOutput
    \/ \E p \in Projects : GenReadPrompt(p)
    \/ \E p \in Projects : GenApi(p)
    \/ \E p \in Projects : GenMkdirProject(p)
    \/ \E p \in Projects : GenMkdirFile(p)
    \/ \E p \in Projects : GenOpenFile(p)
    \/ \E p \in Projects : GenWriteData(p)
    \/ \E p \in Projects : GenCloseFile(p)
    \/ \E p \in Projects : StartPipeline(p)
    \/ \E p \in Projects : SetupInstall(p)
    \/ \E p \in Projects : SetupCodegen(p)
    \/ \E p \in Projects : Typecheck(p)
    \/ \E p \in Projects : Lint(p)
    \/ \E p \in Projects : DeployMkdirBackend(p)
    \/ \E p \in Projects : DeployMkdirStorage(p)
    \/ \E p \in Projects : DeployOpenStdout(p)
    \/ \E p \in Projects : DeployOpenStderr(p)
    \/ \E p \in Projects : HcFetch(p)
    \/ \E p \in Projects : HcWake(p)
    \/ \E p \in Projects : DeployExitCheck(p)
    \/ \E p \in Projects : DeployPush(p)
    \/ \E p \in Projects : DeployKill(p)
    \/ \E p \in Projects : DeployCloseStdout(p)
    \/ \E p \in Projects : DeployCloseStderr(p)
    \/ \E p \in Projects : DeploySettle(p)
    \/ \E p \in Projects : ProcExit(p)
    \/ \E p \in Projects : Finalize(p)
    \/ EvalLoopEnd
    \/ EvalWriteReport
    \/ ProcessExit

Spec == Init /\ [][Next]_vars

\* ------------------------------------------------------------------------
\* Properties
\* ------------------------------------------------------------------------

\* the entries built so far: every iteration's reportEntry and the report's
Entries == {entry[p] : p \in Projects} \cup {report[k] : k \in 1..Len(report)}

\* C1: the stage outcomes of every report entry are assigned in pipeline
\* order (setup, typecheck, lint, deploy), and an entry whose setup outcome
\* is failed has no typecheck, lint or deploy outcome: none of those stages
\* was started.
C1_PipelineOrder ==
    /\ \A p \in Projects :
         /\ Len(recorded[p]) <= Len(Stages)
         /\ recorded[p] = SubSeq(Stages, 1, Len(recorded[p]))
         /\ entry[p].setup.status = "failed" => attempted[p] = <<"setup">>
    /\ \A e \in Entries :
         e.setup.status = "failed" =>
             /\ e.typecheck = Absent
             /\ e.lint = Absent
             /\ e.deploy = Absent

C1_Witness ==
    /\ Len(report) = 2
    /\ report[1].setup.status = "failed"
    /\ report[2].deploy.status = "failed"
    /\ report[2].typecheck.status = "failed"

\* C2: once the iteration of a project whose setup succeeded is over, each
\* of typecheck, lint and deploy has been started once and has exactly one
\* recorded outcome, whatever the outcomes of the others.
C2_AllStagesAfterSetup ==
    /\ \A p \in Projects :
         (pc[p] \in {"finalize", "done"} /\ entry[p].setup.status = "ok") =>
             /\ recorded[p] = Stages
             /\ attempted[p] = Stages
             /\ entry[p].typecheck # Absent
             /\ entry[p].lint # Absent
             /\ entry[p].deploy # Absent
    /\ \A k \in 1..Len(report) :
         report[k].setup.status = "ok" =>
             /\ report[k].typecheck # Absent
             /\ report[k].lint # Absent
             /\ report[k].deploy # Absent

C2_Witness ==
    \E k \in 1..Len(report) :
        /\ report[k].setup.status = "ok"
        /\ report[k].typecheck.status = "failed"
        /\ report[k].lint.status = "failed"
        /\ report[k].deploy.status = "ok"

\* C3: when the evaluation phase has run over projects that all have a
\* category and a test name, then at the end of the run the report holds
\* exactly one entry per discovered project, in discovery order, whatever
\* happened in the stages, and with a report path given the report file
\* holds that report.
C3_ReportCompleteOriginal ==
    ( /\ opts.doEvaluation
      /\ mainError # "Generation failed."
      /\ \A p \in Projects : ~JoinThrows(p)
      /\ exitCode # -1 ) =>
        /\ Len(report) = Len(tests)
        /\ \A k \in 1..Len(report) :
             /\ report[k].category = Destructure(tests[k]).category
             /\ report[k].test = Destructure(tests[k]).test
        /\ opts.report => written = report

\* C4: the exit status is non-zero whenever the generation phase failed or
\* an evaluated project has a failed stage.
C4_ExitStatusOriginal ==
    (exitCode # -1 /\ (mainError = "Generation failed." \/ anyFailed)) =>
        exitCode # 0

\* the pcs of an iteration that is inside deploy()
DeployPcs ==
    {"mkdirBackend", "mkdirStorage", "openStdout", "openStderr", "probe",
     "exitCheck", "push", "kill",
     "closeStdout", "closeStderr", "settle"}

\* C5: at most one project's pipeline, and so at most one deploy attempt, is
\* in flight at any time, and a pipeline has started only if the entries of
\* all projects before it are in the report; for every --concurrency value.
C5_Sequential ==
    /\ Cardinality(InFlight) <= 1
    /\ Cardinality({p \in Projects : pc[p] \in DeployPcs}) <= 1
    /\ \A p \in Projects :
         pc[p] # "wait" =>
             /\ Len(report) >= p - 1
             /\ \A q \in 1..(p - 1) : pc[q] = "done" /\ report[q] = entry[q]

C5_Witness ==
    /\ Len(tests) = 2
    /\ opts.concurrency = 4
    /\ pc[1] = "done"
    /\ pc[2] = "probe"
    /\ Len(report) = 1

\* C6: when the deploy outcome of an attempt that spawned its backend is
\* recorded, kill() has been called on the backend process and both log
\* file handles are closed, on every exit path of the try block.
C6_ReleasedBeforeRecord ==
    \A p \in Projects :
        (entry[p].deploy # Absent /\ proc[p] # "none") =>
            /\ signaled[p]
            /\ files[p].stdout = "closed"
            /\ files[p].stderr = "closed"

C6_Witness ==
    /\ Len(report) = 2
    /\ report[1].deploy.error = Outcome(DeployError("Deploy failed")).error
    /\ report[2].deploy.error = Outcome(DeployError("fetch failed")).error
    /\ signaled[1] /\ signaled[2]
    /\ files[2].stderr = "closed"

\* the backend processes that were spawned and have not exited
Alive == {p \in Projects : proc[p] = "running"}

\* C7 as stated: while a deploy attempt runs its backend and probes, every
\* backend process of an earlier attempt has terminated, so at most one
\* backend process is alive at any time.
C7_OneBackendAliveOriginal ==
    /\ Cardinality(Alive) <= 1
    /\ \A p \in Projects :
         pc[p] = "probe" => \A q \in Projects \ {p} : proc[q] # "running"

\* C7, amended: while a deploy attempt runs its backend and probes, every
\* backend process of an earlier attempt has been sent the termination
\* signal and its log handles are closed; at most one backend process that
\* has not been signaled exists at any time.
C7_OneBackendUnsignaled ==
    /\ Cardinality({p \in Projects : proc[p] # "none" /\ ~signaled[p]}) <= 1
    /\ \A p \in Projects :
         pc[p] = "probe" =>
             \A q \in Projects \ {p} :
                 proc[q] # "none" =>
                     /\ signaled[q]
                     /\ files[q].stdout = "closed"
                     /\ files[q].stderr = "closed"

C7_Witness ==
    /\ Len(tests) = 2
    /\ pc[2] = "probe"
    /\ proc[1] = "running"
    /\ signaled[1]
    /\ proc[2] = "running"

\* C8: against an endpoint that fails every request until T < 10 s and
\* answers successfully from T on, healthCheck never gives up and is never
\* held back: it returns true, after at least one failed attempt, and no
\* backoff timer it starts ends after the deadline.
C8_ProbeSucceeds ==
    \A p \in Projects :
        LET h == hc[p] IN
        (h.healthyAt # Never /\ h.healthyAt < TotalTimeout) =>
            /\ h.pc # "err"
            /\ h.pc = "ok" => h.failed >= 1
            /\ h.pc = "sleep" =>
                   /\ h.sleepStart + h.sleepFor <= h.deadline
                   /\ h.numAttempts < MaxAttempts

C8_Witness ==
    \E p \in Projects :
        /\ hc[p].pc = "ok"
        /\ hc[p].healthyAt = 9999
        /\ hc[p].failed >= 2
        /\ hc[p].slept > 0

\* C9: against an endpoint that never answers successfully, healthCheck
\* throws the error of its last attempt, starts no backoff timer once the
\* remaining budget is used up (remaining <= 0), and the durations of its
\* backoff timers sum to at most the 10 s timeout.
C9_ProbeGivesUpOriginal ==
    \A p \in Projects :
        LET h == hc[p] IN
        (h.healthyAt = Never /\ h.pc # "idle") =>
            /\ h.pc = "err" => h.thrown = h.failed
            /\ h.pc = "sleep" => h.remaining > 0
            /\ h.slept + (IF h.pc = "sleep" THEN h.sleepFor ELSE 0)
                   <= TotalTimeout

\* the files generateTest writes for project p when it runs alone
IsolatedFiles(p) ==
    LET tags == FileTags(p, genOut[p])
        passes(k) == StartsWith(Join(projectDir(p), tags[k].path),
                                projectDir(p)) IN
    {<<Join(projectDir(p), tags[k].path), {tags[k].content}>> :
         k \in {i \in 1..Len(tags) : \A j \in 1..i : passes(j)}}

\* C10: the concurrent generations write into pairwise disjoint per-project
\* directories, and when all of them are done each project's directory
\* holds exactly the files its own generation produces in isolation.
C10_DisjointOutputOriginal ==
    \A p \in Projects :
        gpc[p] = "done" =>
            /\ \A q \in Projects \ {p} : projectDir(p) # projectDir(q)
            /\ (\A q \in Projects : gpc[q] \in {"done", "failed"}) =>
                   FilesUnder(disk, projectDir(p)) = IsolatedFiles(p)

\* abs lies below directory dir
Inside(abs, dir) ==
    Len(abs) > Len(dir) /\ SubSeq(abs, 1, Len(dir)) = dir

\* the response for project p has a file path that resolves outside the
\* project's directory
Escaping(p) ==
    \E k \in 1..Len(FileTags(p, genOut[p])) :
        ~Inside(Join(projectDir(p), FileTags(p, genOut[p])[k].path),
                projectDir(p))

\* the files on disk written by the generation of project p
WrittenFor(p) == {e \in disk : p \in e[2]}

\* C11: when a returned file path resolves outside the project's directory,
\* at whatever position in the returned sequence, the generation of that
\* project fails and no file at all has been written for that project,
\* neither the escaping file nor the files that precede it.
C11_NoFileOnEscapeOriginal ==
    \A p \in Projects :
        Escaping(p) =>
            /\ WrittenFor(p) = {}
            /\ gpc[p] # "done"

\* C12: when the generation of any single project fails, the generation
\* phase fails: main() is rejected with "Generation failed." before the
\* evaluation phase, no stage is run and no report entry is produced.
C12_GenerationFailureAborts ==
    (\E p \in Projects : gpc[p] = "failed") =>
        /\ mainPc = "rejected"
        /\ mainError = "Generation failed."
        /\ report = <<>>
        /\ written = "none"
        /\ \A q \in Projects :
               /\ pc[q] = "wait"
               /\ attempted[q] = <<>>
               /\ recorded[q] = <<>>
               /\ proc[q] = "none"

\* one generation failed, the other one went through, evaluation was asked
C12_Witness ==
    /\ opts.doEvaluation
    /\ \E p, q \in Projects : gpc[p] = "failed" /\ gpc[q] = "done"
    /\ mainPc = "rejected"

\* the (category, test) pairs the evaluation root holds whose test name
\* passes the filter
TestPairs(layout, testFilter) ==
    LET entries == EvalsDirEntries(layout) IN
    { <<entries[x[1]], ReaddirCategory(entries[x[1]])[x[2]]>> :
        x \in { y \in (1..Len(entries)) \X (1..3) :
                  /\ y[2] <= Len(ReaddirCategory(entries[y[1]]))
                  /\ \/ testFilter = "null"
                     \/ ReaddirCategory(entries[y[1]])[y[2]]
                            \in FilterMatches } }

\* the [category, test] pairs the loops destructure from the discovered list
IteratedPairs(layout, testFilter) ==
    [k \in 1..Len(Discover(layout, testFilter)) |->
        <<Destructure(Discover(layout, testFilter)[k]).category,
          Destructure(Discover(layout, testFilter)[k]).test>>]

\* C13: discovery returns exactly the (category, test) pairs of the
\* evaluation root whose test name passes the filter, sorted by category and
\* then by test, and the evaluation loop iterates over these pairs.
C13_DiscoveryOriginal ==
    /\ \A testFilter \in {"null", "re"} :
          LET d == IteratedPairs(fs.layout, testFilter) IN
          /\ {d[k] : k \in 1..Len(d)} = TestPairs(fs.layout, testFilter)
          /\ \A k \in 1..(Len(d) - 1) :
                \/ StrLess(d[k][1], d[k + 1][1])
                \/ d[k][1] = d[k + 1][1] /\ StrLess(d[k][2], d[k + 1][2])
    /\ \A k \in 1..Len(report) :
          <<report[k].category, report[k].test>>
              \in TestPairs(fs.layout, "null")

\* the outcomes main records for the errors that are not verification
\* failures: verifier output that does not parse, a log file that cannot be
\* opened, a backend process that did not start
InfraOutcomes ==
    { Outcome(LintError(1, EslintOutput(FALSE))),
      Outcome(DeployError("open failed")),
      Outcome(DeployError("Convex process failed to start")) }

\* the stages that have been started for project p
Started(p) == {attempted[p][i] : i \in 1..Len(attempted[p])}

\* C14: an infrastructure error raised in a stage aborts that project's
\* pipeline at once: no later stage of the project is attempted or recorded;
\* and it does not abort the batch: the other projects are still evaluated.
C14_InfraAbortsPipelineOriginal ==
    \A p \in Projects :
        \A i \in 1..Len(Stages) :
            entry[p][Stages[i]] \in InfraOutcomes =>
                /\ \A j \in (i + 1)..Len(Stages) :
                       /\ Stages[j] \notin Started(p)
                       /\ entry[p][Stages[j]] = Absent
                /\ mainPc \in {"resolved", "rejected"} =>
                       \A q \in Projects : pc[q] = "done"

\* C15: when the backend process has already exited at the moment a probe
\* request would be made, the deploy fails at that moment with the error
\* for a process that exited, and no probe request or backoff is gone
\* through.
C15_ExitedFailsFastOriginal ==
    [][\A p \in Projects :
          ( /\ proc[p] \in Ended
            /\ pc[p] = "probe"
            /\ hc[p].pc = "fetch"
            /\ hc'[p] # hc[p] ) =>
              /\ derr'[p] = "Convex process failed to start"
              /\ pc'[p] # "probe"]_vars

\* C16: the push command starts only after the health probe returned
\* success: the exitCode test and the push are reached with a probe that
\* resolved and no error pending, and a deploy whose probe failed or timed
\* out (or that never got to the probe) has run no push.
C16_PushAfterProbeSuccess ==
    \A p \in Projects :
        /\ pc[p] = "exitCheck" => hc[p].pc = "ok" /\ derr[p] = "none"
        /\ pc[p] = "push" => derr[p] = "none" /\ hc[p].pc = "idle"
        /\ ( \/ hc[p].pc = "err"
             \/ derr[p] \in {"fetch failed", "open failed"}
             \/ entry[p].deploy \in {Outcome(DeployError("fetch failed")),
                                      Outcome(DeployError("open failed"))} )
              => pushRuns[p] = 0

\* a deploy whose probe timed out is recorded, and another one has pushed
C16_Witness ==
    \E p, q \in Projects :
        /\ entry[p].deploy = Outcome(DeployError("fetch failed"))
        /\ pushRuns[p] = 0
        /\ pushRuns[q] = 1

\* C17 as stated: the delay waited before attempt n (0-indexed) is
\* min(100 ms * 2^n, remaining budget); while healthCheck sleeps, failed is
\* the number of attempts made, so the attempt that follows has index failed.
C17_BackoffBeforeAttemptOriginal ==
    \A p \in Projects :
        hc[p].pc = "sleep" =>
            hc[p].sleepFor =
                Min(BaseDelay * Pow2(hc[p].failed),
                    TotalTimeout - hc[p].sleepStart)

\* C17 amended: nothing is waited before attempt 0, and the delay waited
\* after the failed attempt n (0-indexed), that is before attempt n + 1, is
\* min(100 ms * 2^n, remaining budget), the budget being what is left of
\* the 10 s when the attempt has failed.
C17_BackoffAfterAttempt ==
    \A p \in Projects :
        /\ hc[p].pc = "fetch" /\ hc[p].failed = 0 =>
               hc[p].now = 0 /\ hc[p].slept = 0
        /\ hc[p].pc = "sleep" =>
               /\ hc[p].failed >= 1
               /\ hc[p].sleepFor =
                      Min(BaseDelay * Pow2(hc[p].failed - 1),
                          TotalTimeout - hc[p].sleepStart)

\* a delay after the third failed attempt or later that the remaining
\* budget cuts short
C17_Witness ==
    \E p \in Projects :
        /\ hc[p].pc = "sleep"
        /\ hc[p].failed >= 3
        /\ hc[p].sleepFor = TotalTimeout - hc[p].sleepStart
        /\ hc[p].sleepFor < BaseDelay * Pow2(hc[p].failed - 1)
        /\ hc[p].sleepFor > 0

\* C18: setup runs install and then codegen; codegen is started only when
\* install exited with code 0, and setup is recorded ok only when both
\* exited with code 0.
C18_SetupOrder ==
    \A p \in Projects :
        LET log == setupLog[p] IN
        /\ Len(log) <= 2
        /\ Len(log) >= 1 => log[1].cmd = "install"
        /\ Len(log) = 2 => log[2].cmd = "codegen" /\ log[1].code = 0
        /\ pc[p] = "codegen" => log = <<[cmd |-> "install", code |-> 0]>>
        /\ entry[p].setup.status = "ok" =>
               /\ Len(log) = 2
               /\ log[1].code = 0
               /\ log[2].code = 0
        /\ entry[p].setup.status = "failed" =>
               log[Len(log)].code # 0

\* one setup recorded ok, one failed by install and never followed by codegen
C18_Witness ==
    \E p, q \in Projects :
        /\ entry[p].setup.status = "ok"
        /\ entry[q].setup.status = "failed"
        /\ setupLog[q] = <<[cmd |-> "install", code |-> 1]>>
        /\ pc[q] = "done"

\* C19: a project's pipeline status is success exactly when every stage
\* recorded for it is ok (typecheck and lint failures do not stop the
\* recording); the run's evaluation fails exactly when some project's
\* pipeline status is not success, whatever the project's position.
C19_StatusAggregation ==
    /\ \A p \in Projects :
          allOk[p] = (\A i \in 1..Len(recorded[p]) :
                         entry[p][recorded[p][i]].status = "ok")
    /\ anyFailed = (\E p \in Projects : pc[p] = "done" /\ ~allOk[p])
    /\ mainPc \in {"resolved", "rejected"} =>
          (mainError = "Evaluation failed." <=> \E p \in Projects : ~allOk[p])

\* the first project failed typecheck only, the last one is all ok, and
\* the evaluation has failed
C19_Witness ==
    /\ Len(report) = 2
    /\ report[1].typecheck.status = "failed"
    /\ report[1].lint.status = "ok"
    /\ report[1].deploy.status = "ok"
    /\ \A i \in 1..Len(Stages) : report[2][Stages[i]].status = "ok"
    /\ mainPc = "rejected"
    /\ mainError = "Evaluation failed."

\* the records of a parsable lint output, each without its source field
RecordsWithoutSource ==
    [k \in 1..Len(EslintOutput(TRUE).parsed) |->
        JObj({f \in EslintOutput(TRUE).parsed[k].fields : f[1] # "source"})]

\* C20: a lint that exits non-zero with parsable output is recorded as
\* failed with, as its error, the list of the records without their source
\* field; with output that does not parse it is recorded as failed with a
\* text that embeds the raw output.
C20_LintOutcomeOriginal ==
    \A p \in Projects :
        entry[p].lint.status = "failed" =>
            \/ entry[p].lint.error = ListValue(RecordsWithoutSource)
            \/ /\ entry[p].lint.error.list = <<>>
               /\ \E i \in 1..Len(entry[p].lint.error.text) :
                      entry[p].lint.error.text[i] = EslintOutput(FALSE).raw

\* C21: in a deploy attempt the push command is run at most once, and it is
\* not run when the backend process is found exited after the health probe
\* returned success: the attempt then leaves the try body without a push,
\* the process is signaled and both log files are closed before the
\* outcome is recorded, and the deploy outcome is recorded as failed.
C21_PushAtMostOnce ==
    \A p \in Projects :
        /\ pushRuns[p] <= 1
        /\ derr[p] = "Convex process failed to start" =>
               /\ pushRuns[p] = 0
               /\ pc[p] \in {"kill", "closeStdout", "closeStderr", "settle"}
               /\ pc[p] = "settle" =>
                      /\ signaled[p]
                      /\ files[p].stdout = "closed"
                      /\ files[p].stderr = "closed"
        /\ entry[p].deploy.error =
               Outcome(DeployError("Convex process failed to start")).error =>
               /\ entry[p].deploy.status = "failed"
               /\ ~allOk[p]
               /\ pushRuns[p] = 0
               /\ signaled[p]
               /\ files[p].stdout = "closed"
               /\ files[p].stderr = "closed"

\* one deploy found its backend exited after a successful probe and is
\* recorded, another one has run its push
C21_Witness ==
    \E p, q \in Projects :
        /\ pc[p] = "done"
        /\ entry[p].deploy = Outcome(DeployError("Convex process failed to start"))
        /\ pushRuns[p] = 0
        /\ proc[p] = "exited"
        /\ pushRuns[q] = 1

====
